---- MODULE Spec2Model ----
(***************************************************************************)
(* The image-work execution engine of kube-fledged's ImageManager         *)
(* (pkg/images/image_manager.go): the Dispatcher (processNextWorkItem),   *)
(* the Pod Status Observer (the informer's UpdateFunc and                 *)
(* handlePodStatusChange) and the Deadline Reconciler                     *)
(* (updateImageCacheStatus, updatePendingImageWorkResults), all working   *)
(* on the shared map imageworkstatus under the RWMutex lock.              *)
(*                                                                         *)
(* Granularity.  A read section (RLock ... RUnlock) and the Dispatcher's  *)
(* and Observer's write sections hold the lock over a map access only and *)
(* are one step each, enabled when no writer holds the lock.  The         *)
(* reconciler's two write sections contain cluster calls, so they span    *)
(* several steps and the variable lock names the run that holds it.       *)
(* A Go map is ranged over in an unspecified order: each pass picks the   *)
(* next key nondeterministically.                                          *)
(***************************************************************************)
EXTENDS Naturals, Sequences, FiniteSets, TLC

\* ---------------------------------------------------------------- bounds
MaxRuns == 2       \* reconciler goroutines (flush items) in one behaviour
MaxPods == 2       \* pods the cluster starts for one job
MaxTicks == 1      \* poll ticks before imagePullDeadlineDuration elapses
MaxCS == 2         \* container statuses reported by one pod
MaxEvents == 1     \* "Failed" events returned for one pod
MaxSuffix == 2     \* random suffixes the fake-name generator can return

\* ------------------------------------------------------------- constants
fakeJobPrefix == "fakejob-"
realJobPrefix == "job-"
ImageWorkResultStatusSucceeded == "succeeded"
ImageWorkResultStatusFailed == "failed"
ImageWorkResultStatusJobCreated == "jobcreated"
ImageWorkResultStatusAlreadyPulled == "alreadypulled"
ImageCacheCreate == "create"
ImageCachePurge == "purge"
ImageCacheStatusUpdate == "statusupdate"
PodPending == "Pending"
PodRunning == "Running"
PodSucceeded == "Succeeded"
PodFailed == "Failed"
defaultImagePullPolicy == "IfNotPresent"

\* ------------------------------------------------------------ work items
CacheA == [Namespace |-> "ns1", Name |-> "a"]
\* an image cache of the same name in another namespace
CacheB == [Namespace |-> "ns2", Name |-> "a"]
Caches == {CacheA, CacheB}

NoImage == [Repo |-> "", Tag |-> ""]
ImgLatest == [Repo |-> "img", Tag |-> "latest"]
ImgV1 == [Repo |-> "img", Tag |-> "v1"]
ImgNoTag == [Repo |-> "img", Tag |-> ""]
ImgNewLatest == [Repo |-> "new", Tag |-> "latest"]
ImgNewV1 == [Repo |-> "new", Tag |-> "v1"]
\* images already on the nodes the items target
NodeImages == {ImgLatest, ImgV1, ImgNoTag}

\* an object taken off imageworkqueue: an ImageWorkRequest or something else
Request(img, node, wt, c) ==
    [Type |-> "ImageWorkRequest", Image |-> img, Node |-> node,
     WorkType |-> wt, Imagecache |-> c]
OtherObject ==
    [Type |-> "other", Image |-> NoImage, Node |-> "",
     WorkType |-> ImageCacheCreate, Imagecache |-> CacheA]
FlushItem(c) == Request(NoImage, "", ImageCacheCreate, c)
PullItem(c) == Request(ImgLatest, "node1", ImageCacheCreate, c)
PresentItem(c) == Request(ImgV1, "node1", ImageCacheCreate, c)
PurgeItem(c) == Request(ImgV1, "node1", ImageCachePurge, c)

PullOf(img, c) == Request(img, "node1", ImageCacheCreate, c)
PresentItem2(c) == Request(ImgV1, "node2", ImageCacheCreate, c)

IsFlush(obj) == obj.Image = NoImage /\ obj.Node = ""

\* What the producer (the ImageCache controller) has put on the queue: a pull
\* and a purge followed by the flush item; one pull and two flush items (the
\* cache is synced twice); an image already on the node, and a pull arriving
\* after the flush item; an object of another type, a flush item with nothing
\* dispatched before it, and a purge.
Workloads ==
    {<<PullItem(CacheA), PurgeItem(CacheA), FlushItem(CacheA)>>,
     <<PullItem(CacheA), FlushItem(CacheA), FlushItem(CacheA)>>,
     <<PresentItem(CacheA), FlushItem(CacheA), PullItem(CacheA)>>,
     <<OtherObject, FlushItem(CacheA), PurgeItem(CacheA)>>}

\* the values of the flag -image-pull-policy
PullPolicies == {defaultImagePullPolicy, "Always"}

\* Shorter queues, each with the policy it runs under: an image without tag on
\* the node, a latest image and a tagged image not on the node, and the same
\* tagged image on two nodes, under the default policy; an image without tag
\* and a tagged image, both on the node, under Always; an item of the image
\* cache a of namespace ns2 before the flush item of the image cache a of ns1.
ShortConfigs ==
    {<<<<PullOf(ImgNoTag, CacheA), FlushItem(CacheA)>>, defaultImagePullPolicy>>,
     <<<<PullOf(ImgNewLatest, CacheA), FlushItem(CacheA)>>, defaultImagePullPolicy>>,
     <<<<PullOf(ImgNewV1, CacheA), FlushItem(CacheA)>>, defaultImagePullPolicy>>,
     <<<<PresentItem(CacheA), PresentItem2(CacheA), FlushItem(CacheA)>>,
       defaultImagePullPolicy>>,
     <<<<PullOf(ImgNewV1, CacheB), FlushItem(CacheA)>>, defaultImagePullPolicy>>,
     <<<<PullOf(ImgNoTag, CacheA), FlushItem(CacheA)>>, "Always">>,
     <<<<PullOf(ImgV1, CacheA), FlushItem(CacheA)>>, "Always">>}

\* The configurations checked: the long queues under the default policy and
\* the short ones.
Configs == (Workloads \X {defaultImagePullPolicy}) \cup ShortConfigs

\* The configurations checked with the stop signal.
StopConfigs ==
    ShortConfigs
    \cup {<<<<OtherObject, FlushItem(CacheA), PurgeItem(CacheA)>>, defaultImagePullPolicy>>}

Runs == 1..MaxRuns

VARIABLES
    imageworkqueue,   \* m.imageworkqueue: objects not yet taken by the Dispatcher
    dpc,              \* Dispatcher position: "idle" | "insert" | "done"
    dcur,             \* Dispatcher locals between job creation and insertion
    imageworkstatus,  \* m.imageworkstatus: job name -> ImageWorkResult
    lock,             \* m.lock: 0 = no writer, r = held exclusively by run r
    pods,             \* cluster: job name -> phases of its pods (domain: existing jobs)
    nameSeq,          \* job names the cluster has generated so far
    notif,            \* pod notifications the informer has not delivered yet
    opc,              \* Observer position: "idle" | "write" | "panic"
    oiw,              \* Observer local iwres (<<>> when none)
    ocs,              \* pod.Status.ContainerStatuses of the Failed pod being handled
    run,              \* per reconciler goroutine: position and locals
    workqueue,        \* m.workqueue: items added by the reconcilers
    deleteLog,        \* history: job names passed to Jobs().Delete, in order
    inserted,         \* history: job names the Dispatcher stored in the map
    atLock,           \* history: the map when run r began forced resolution
    emitIdx,          \* history: index in workqueue of run r's item (0: none)
    succAtLock,       \* history: the jobs whose only pod had Succeeded when run r
                      \*          began forced resolution
    runCache,         \* history: the Imagecache of the flush item that started run r
    imagePullPolicy,  \* m.imagePullPolicy, set by NewImageManager
    stopCh            \* the stop channel given to Run: "open" | "closed"

vars == <<imageworkqueue, dpc, dcur, imageworkstatus, lock, pods, nameSeq, notif,
          opc, oiw, ocs, run, workqueue, deleteLog, inserted, atLock, emitIdx,
          succAtLock, runCache, imagePullPolicy, stopCh>>

dispVars == <<imageworkqueue, dpc, dcur, nameSeq, inserted>>
obsVars == <<notif, opc, oiw, ocs>>
histVars == <<deleteLog, atLock, emitIdx, succAtLock, runCache>>
cfgVars == <<imagePullPolicy, stopCh>>

EmptyMap == [j \in {} |-> 0]
NoRun == [pc |-> "none", name |-> "", ticks |-> 0, job |-> <<>>, iw |-> <<>>,
          iwstatus |-> EmptyMap, imageCache |-> <<>>]

InitFrom(configs) ==
    /\ \E c \in configs :
        /\ imageworkqueue = c[1]
        /\ imagePullPolicy = c[2]
    /\ stopCh = "open"
    /\ dpc = "idle"
    /\ dcur = <<>>
    /\ imageworkstatus = EmptyMap
    /\ lock = 0
    /\ pods = EmptyMap
    /\ nameSeq = 0
    /\ notif = <<>>
    /\ opc = "idle"
    /\ oiw = <<>>
    /\ ocs = <<>>
    /\ run = [r \in Runs |-> NoRun]
    /\ workqueue = <<>>
    /\ deleteLog = <<>>
    /\ inserted = {}
    /\ atLock = [r \in Runs |-> EmptyMap]
    /\ emitIdx = [r \in Runs |-> 0]
    /\ succAtLock = [r \in Runs |-> {}]
    /\ runCache = [r \in Runs |-> <<>>]

Init == InitFrom(Configs)
InitStop == InitFrom(StopConfigs)

\* ------------------------------------------------------------ map helpers
Put(m, k, v) == [x \in DOMAIN m \cup {k} |-> IF x = k THEN v ELSE m[x]]
Drop(m, k) == [x \in DOMAIN m \ {k} |-> m[x]]

\* strings.HasPrefix(job, prefix) on a name <<prefix, suffix>>
HasPrefix(job, prefix) == job[1] = prefix
\* names.SimpleNameGenerator.GenerateName / the API server's generateName:
\* the prefix and a suffix.  The API server refuses a name in use, so the
\* suffix of a cluster job is new; SimpleNameGenerator returns five random
\* characters and looks at nothing.
GenerateName(prefix, n) == <<prefix, n>>
FakeSuffixes == 1..MaxSuffix

\* A panic in the informer's handler is not recovered: it ends the process,
\* and with it the Dispatcher, the Observer and every reconciler goroutine.
Alive == opc # "panic"

\* ------------------------------------------------------------- Dispatcher
\* checkIfImageNeedsToBePulled: pull when the policy is Always, when the image
\* has no tag or the tag latest, or when the image is absent from the node
checkIfImageNeedsToBePulled(policy, image, present) ==
    \/ policy = "Always"
    \/ image.Tag \in {"", "latest"}
    \/ policy = "IfNotPresent" /\ ~present

\* the object is added to the queue again
D_Unexpected_Requeued ==
    /\ Alive
    /\ dpc = "idle"
    /\ imageworkqueue # <<>>
    /\ Head(imageworkqueue).Type # "ImageWorkRequest"
    /\ imageworkqueue' = Append(Tail(imageworkqueue), Head(imageworkqueue))
    /\ UNCHANGED <<cfgVars, dpc, dcur, nameSeq, inserted, imageworkstatus, lock, pods,
                   obsVars, run, workqueue, histVars>>

\* line 387: obj.(ImageWorkRequest) fails: Forget, report, Done
D_Unexpected ==
    /\ Alive
    /\ dpc = "idle"
    /\ imageworkqueue # <<>>
    /\ Head(imageworkqueue).Type # "ImageWorkRequest"
    /\ imageworkqueue' = Tail(imageworkqueue)
    /\ UNCHANGED <<cfgVars, dpc, dcur, nameSeq, inserted, imageworkstatus, lock, pods,
                   obsVars, run, workqueue, histVars>>

\* the goroutine is not given the name of the image cache
SpawnRun_NoName(name) ==
    [NoRun EXCEPT !.pc = "poll", !.name = ""]

\* lines 396-401: a flush item starts a reconciler goroutine on a fresh errCh
SpawnRun(name) ==
    [NoRun EXCEPT !.pc = "poll", !.name = name]

D_Flush ==
    /\ Alive
    /\ dpc = "idle"
    /\ imageworkqueue # <<>>
    /\ LET obj == Head(imageworkqueue) IN
        /\ obj.Type = "ImageWorkRequest"
        /\ IsFlush(obj)
        /\ \E r \in Runs :
            /\ run[r].pc = "none"
            /\ \A q \in Runs : q < r => run[q].pc # "none"
            /\ run' = [run EXCEPT ![r] = SpawnRun(obj.Imagecache.Name)]
            /\ runCache' = [runCache EXCEPT ![r] = <<obj.Imagecache>>]
    /\ imageworkqueue' = Tail(imageworkqueue)
    /\ UNCHANGED <<cfgVars, dpc, dcur, nameSeq, inserted, imageworkstatus, lock, pods,
                   obsVars, workqueue, deleteLog, atLock, emitIdx, succAtLock>>

\* pull keeps the value true it is given at line 415
NeedsJob_Always(iwr) == TRUE

\* the tag is not looked at: a job only for an image absent from the node
NeedsJob_PresenceOnly(iwr) ==
    \/ iwr.WorkType = ImageCachePurge
    \/ iwr.Image \notin NodeImages

\* lines 407-430: whether the item needs a job (purge always does)
NeedsJob(iwr) ==
    \/ iwr.WorkType = ImageCachePurge
    \/ checkIfImageNeedsToBePulled(imagePullPolicy, iwr.Image, iwr.Image \in NodeImages)

\* the entry is stored before the error is looked at
OnDispatchError_Stored(m, iwr) ==
    Put(m, GenerateName(realJobPrefix, 0),
        [ImageWorkRequest |-> iwr, Status |-> ImageWorkResultStatusJobCreated,
         Reason |-> "", Message |-> <<>>])

\* lines 410-412, 417-420, 423-425: the closure returns the error before the
\* map is written at line 433: the map after the return
OnDispatchError(m, iwr) == m

\* lines 409-412, 416-425, 445-448: deleteImage, checkIfImageNeedsToBePulled or
\* pullImage returns an error: the closure returns it, Done(obj) runs, the
\* error is reported; the item is not added to the queue again
D_DispatchFails ==
    /\ Alive
    /\ dpc = "idle"
    /\ imageworkqueue # <<>>
    /\ LET obj == Head(imageworkqueue) IN
        /\ obj.Type = "ImageWorkRequest"
        /\ ~IsFlush(obj)
        /\ imageworkstatus' = OnDispatchError(imageworkstatus, obj)
    /\ imageworkqueue' = Tail(imageworkqueue)
    /\ UNCHANGED <<cfgVars, dpc, dcur, nameSeq, inserted, lock, pods,
                   obsVars, run, workqueue, histVars>>

\* lines 409, 422: the job is created in the cluster under a generated name
D_CreateJob ==
    /\ Alive
    /\ dpc = "idle"
    /\ imageworkqueue # <<>>
    /\ LET obj == Head(imageworkqueue)
           job == GenerateName(realJobPrefix, nameSeq + 1) IN
        /\ obj.Type = "ImageWorkRequest"
        /\ ~IsFlush(obj)
        /\ NeedsJob(obj)
        /\ pods' = Put(pods, job, <<>>)
        /\ dcur' = <<[iwr |-> obj, job |-> job, status |-> ImageWorkResultStatusJobCreated]>>
    /\ nameSeq' = nameSeq + 1
    /\ dpc' = "insert"
    /\ imageworkqueue' = Tail(imageworkqueue)
    /\ UNCHANGED <<cfgVars, inserted, imageworkstatus, lock, obsVars, run, workqueue, histVars>>

\* line 428 and 438: no job; the entry goes under a generated fake name
D_AlreadyPresent ==
    /\ Alive
    /\ dpc = "idle"
    /\ imageworkqueue # <<>>
    /\ LET obj == Head(imageworkqueue) IN
        /\ obj.Type = "ImageWorkRequest"
        /\ ~IsFlush(obj)
        /\ ~NeedsJob(obj)
        /\ \E s \in FakeSuffixes :
            dcur' = <<[iwr |-> obj, job |-> GenerateName(fakeJobPrefix, s),
                       status |-> ImageWorkResultStatusAlreadyPulled]>>
    /\ dpc' = "insert"
    /\ imageworkqueue' = Tail(imageworkqueue)
    /\ UNCHANGED <<cfgVars, nameSeq, inserted, imageworkstatus, lock, pods, obsVars, run,
                   workqueue, histVars>>

NewResult(iwr, status) ==
    [ImageWorkRequest |-> iwr, Status |-> status, Reason |-> "", Message |-> <<>>]

\* lines 433-441: store the entry under the exclusive lock, Forget the item
D_Insert ==
    /\ Alive
    /\ dpc = "insert"
    /\ lock = 0
    /\ LET d == dcur[1] IN
        /\ imageworkstatus' = Put(imageworkstatus, d.job, NewResult(d.iwr, d.status))
        /\ inserted' = inserted \cup {d.job}
    /\ dpc' = "idle"
    /\ dcur' = <<>>
    /\ UNCHANGED <<cfgVars, imageworkqueue, nameSeq, lock, pods, obsVars, run, workqueue, histVars>>

\* lines 365-369: Get reports that the queue is shut down and empty, and
\* processNextWorkItem returns false: runWorker ends.  (The owner of the queue
\* shuts it down when the stop channel is closed.)
D_Shutdown ==
    /\ Alive
    /\ dpc = "idle"
    /\ stopCh = "closed"
    /\ imageworkqueue = <<>>
    /\ dpc' = "done"
    /\ UNCHANGED <<cfgVars, imageworkqueue, dcur, nameSeq, inserted, imageworkstatus, lock,
                   pods, obsVars, run, workqueue, histVars>>

\* line 348: the stop signal fires and Run returns.  Nothing in
\* updateImageCacheStatus reads the channel.
Stop ==
    /\ stopCh = "open"
    /\ stopCh' = "closed"
    /\ UNCHANGED <<imagePullPolicy, dispVars, imageworkstatus, lock, pods, obsVars, run,
                   workqueue, histVars>>

\* ------------------------------------------------------- cluster and pods
\* The Job controller starts a pod for an existing job, and another one only
\* after every earlier pod of the job has failed.
LastPhase(j) == pods[j][Len(pods[j])]
Terminal(ph) == ph \in {PodSucceeded, PodFailed}

E_CreatePod(j) ==
    /\ j \in DOMAIN pods
    /\ Len(pods[j]) < MaxPods
    /\ \A i \in DOMAIN pods[j] : pods[j][i] = PodFailed
    /\ pods' = [pods EXCEPT ![j] = Append(@, PodPending)]
    /\ UNCHANGED <<cfgVars, dispVars, imageworkstatus, lock, obsVars, run, workqueue, histVars>>

E_PodRuns(j) ==
    /\ j \in DOMAIN pods
    /\ pods[j] # <<>>
    /\ LastPhase(j) = PodPending
    /\ pods' = [pods EXCEPT ![j][Len(pods[j])] = PodRunning]
    /\ UNCHANGED <<cfgVars, dispVars, imageworkstatus, lock, obsVars, run, workqueue, histVars>>

\* lines 151-152: the UpdateFunc calls handlePodStatusChange on a change into
\* Succeeded or Failed from another phase
Triggers(old, new) == Terminal(new) /\ ~Terminal(old)

E_PodFinishes(j, ph) ==
    /\ j \in DOMAIN pods
    /\ pods[j] # <<>>
    /\ ~Terminal(LastPhase(j))
    /\ pods' = [pods EXCEPT ![j][Len(pods[j])] = ph]
    /\ notif' = IF Triggers(LastPhase(j), ph)
                THEN Append(notif, [job |-> j, phase |-> ph])
                ELSE notif
    /\ UNCHANGED <<cfgVars, dispVars, imageworkstatus, lock, opc, oiw, ocs, run, workqueue,
                   histVars>>

\* ---------------------------------------------------- Pod Status Observer
\* pod.Status.ContainerStatuses: the state of each reported container.  The
\* pods read here are Pending or Failed, where no container is running.
States == {"waiting", "terminated"}
CSShapes == UNION {[1..n -> States] : n \in 0..MaxCS}

\* lines 163-170: read the entry under RLock; unknown job: return.  The
\* container statuses of the pod the handler was called with are read only
\* for a Failed pod (line 182).
O_Read ==
    /\ Alive
    /\ opc = "idle"
    /\ notif # <<>>
    /\ lock = 0
    /\ LET job == Head(notif).job IN
        IF job \in DOMAIN imageworkstatus
        THEN /\ oiw' = <<imageworkstatus[job]>>
             /\ opc' = "write"
             /\ notif' = notif
             /\ IF Head(notif).phase = PodFailed
                THEN \E cs \in CSShapes : ocs' = cs
                ELSE ocs' = <<>>
        ELSE /\ oiw' = <<>>
             /\ opc' = "idle"
             /\ notif' = Tail(notif)
             /\ ocs' = <<>>
    /\ UNCHANGED <<cfgVars, dispVars, imageworkstatus, lock, pods, run, workqueue, histVars>>

\* lines 172-191: the local copy iwres after the phase is applied
Observed(iw, phase, cs) ==
    IF phase = PodSucceeded
    THEN [iw EXCEPT !.Status = ImageWorkResultStatusSucceeded]
    ELSE IF cs[1] = "terminated"
         THEN [iw EXCEPT !.Status = ImageWorkResultStatusFailed,
                         !.Reason = "Error", !.Message = <<"terminated">>]
         ELSE [iw EXCEPT !.Status = ImageWorkResultStatusFailed]

\* line 182: ContainerStatuses[0] of a Failed pod that reports no container
\* status: index out of range
O_Panic ==
    /\ Alive
    /\ opc = "write"
    /\ Head(notif).phase = PodFailed
    /\ ocs = <<>>
    /\ opc' = "panic"
    /\ UNCHANGED <<cfgVars, dispVars, imageworkstatus, lock, pods, notif, oiw, ocs, run,
                   workqueue, histVars>>

\* lines 172-194: compute the copy, then store it under the exclusive lock
O_Write ==
    /\ Alive
    /\ opc = "write"
    /\ lock = 0
    /\ LET n == Head(notif) IN
        /\ n.phase = PodFailed => ocs # <<>>
        /\ imageworkstatus' = Put(imageworkstatus, n.job, Observed(oiw[1], n.phase, ocs))
    /\ notif' = Tail(notif)
    /\ opc' = "idle"
    /\ oiw' = <<>>
    /\ ocs' = <<>>
    /\ UNCHANGED <<cfgVars, dispVars, lock, pods, run, workqueue, histVars>>

\* ----------------------------------------------------- Deadline Reconciler
\* lines 201, 272, 297: the entry belongs to the run's image cache
Matches(iw, name) == iw.ImageWorkRequest.Imagecache.Name = name

\* done keeps the value true it is given at line 270
PollDone_Always(name) == TRUE

\* lines 270-279: the poll condition
PollDone(name) ==
    \A j \in DOMAIN imageworkstatus :
        ~(Matches(imageworkstatus[j], name)
          /\ imageworkstatus[j].Status = ImageWorkResultStatusJobCreated)

\* line 266: the condition is false, wait.Poll sleeps until the next tick
R_PollTick(r) ==
    /\ Alive
    /\ run[r].pc = "poll"
    /\ lock = 0
    /\ run[r].ticks < MaxTicks
    /\ ~PollDone(run[r].name)
    /\ run' = [run EXCEPT ![r].ticks = @ + 1]
    /\ UNCHANGED <<cfgVars, dispVars, imageworkstatus, lock, pods, obsVars, workqueue, histVars>>

\* line 266: the condition is true, wait.Poll returns
R_PollDone(r) ==
    /\ Alive
    /\ run[r].pc = "poll"
    /\ lock = 0
    /\ PollDone(run[r].name)
    /\ run' = [run EXCEPT ![r].pc = "resolveLock"]
    /\ UNCHANGED <<cfgVars, dispVars, imageworkstatus, lock, pods, obsVars, workqueue, histVars>>

\* line 266: imagePullDeadlineDuration has elapsed, wait.Poll returns
R_PollTimeout(r) ==
    /\ Alive
    /\ run[r].pc = "poll"
    /\ run[r].ticks = MaxTicks
    /\ run' = [run EXCEPT ![r].pc = "resolveLock"]
    /\ UNCHANGED <<cfgVars, dispVars, imageworkstatus, lock, pods, obsVars, workqueue, histVars>>

\* line 198: updatePendingImageWorkResults takes the exclusive lock
R_ResolveLock(r) ==
    /\ Alive
    /\ run[r].pc = "resolveLock"
    /\ lock = 0
    /\ lock' = r
    /\ run' = [run EXCEPT ![r].pc = "resolve"]
    /\ atLock' = [atLock EXCEPT ![r] = imageworkstatus]
    /\ succAtLock' = [succAtLock EXCEPT ![r] =
            {j \in DOMAIN pods \cap DOMAIN imageworkstatus :
                /\ Matches(imageworkstatus[j], run[r].name)
                /\ pods[j] = <<PodSucceeded>>}]
    /\ UNCHANGED <<cfgVars, dispVars, imageworkstatus, pods, obsVars, workqueue, deleteLog,
                   emitIdx, runCache>>

\* every entry not yet failed is resolved
NeedsResolution_NotFailed(iw) ==
    iw.Status \in {ImageWorkResultStatusJobCreated, ImageWorkResultStatusSucceeded}

\* line 202: the entries the forced-resolution pass resolves
NeedsResolution(iw) == iw.Status = ImageWorkResultStatusJobCreated

ToResolve(name) ==
    {j \in DOMAIN imageworkstatus :
        Matches(imageworkstatus[j], name) /\ NeedsResolution(imageworkstatus[j])}

\* lines 203-204: the pods the lister returns for the job
ListPods(job) == IF job \in DOMAIN pods THEN pods[job] ELSE <<>>

\* the error is returned without the Unlock
Abort_LockKept(r) ==
    /\ lock' = lock
    /\ run' = [run EXCEPT ![r].pc = "sendErr", ![r].job = <<>>, ![r].iw = <<>>]

\* lines 199, 207, 211, 215, 250 and 285-286: return the error (the deferred
\* Unlock runs), then block in errCh <- err
Abort(r) ==
    /\ lock' = 0
    /\ run' = [run EXCEPT ![r].pc = "sendErr", ![r].job = <<>>, ![r].iw = <<>>]

\* lines 205-208: the lister fails
R_ListPodsFails(r, j) ==
    /\ Alive
    /\ run[r].pc = "resolve"
    /\ j \in ToResolve(run[r].name)
    /\ Abort(r)
    /\ UNCHANGED <<cfgVars, dispVars, imageworkstatus, pods, obsVars, workqueue, histVars>>

\* lines 209-216: no pod, or more than one pod, matches the job
R_PodsAmbiguous(r, j) ==
    /\ Alive
    /\ run[r].pc = "resolve"
    /\ j \in ToResolve(run[r].name)
    /\ Len(ListPods(j)) # 1
    /\ Abort(r)
    /\ UNCHANGED <<cfgVars, dispVars, imageworkstatus, pods, obsVars, workqueue, histVars>>

\* lines 217-237: the entry marked failed, reason and message from a Pending pod
Expired(iw, phase, cs) ==
    LET f == [iw EXCEPT !.Status = ImageWorkResultStatusFailed] IN
    IF phase # PodPending THEN f
    ELSE IF Len(cs) # 1
         THEN [f EXCEPT !.Reason = "Pending", !.Message = <<"Check if node is ready">>]
         ELSE IF cs[1] = "waiting"
              THEN [f EXCEPT !.Reason = "ErrImagePull", !.Message = <<"waiting">>]
              ELSE IF cs[1] = "terminated"
                   THEN [f EXCEPT !.Reason = "Error", !.Message = <<"terminated">>]
                   ELSE f

\* lines 217-237, 257: a purge entry is stored at once
R_ResolvePurge(r, j) ==
    /\ Alive
    /\ run[r].pc = "resolve"
    /\ j \in ToResolve(run[r].name)
    /\ Len(ListPods(j)) = 1
    /\ imageworkstatus[j].ImageWorkRequest.WorkType = ImageCachePurge
    /\ \E cs \in CSShapes :
        imageworkstatus' =
            [imageworkstatus EXCEPT ![j] = Expired(@, ListPods(j)[1], cs)]
    /\ UNCHANGED <<cfgVars, dispVars, lock, pods, obsVars, run, workqueue, histVars>>

\* lines 217-247: a pull entry: the events of the pod are requested
R_QueryEvents(r, j) ==
    /\ Alive
    /\ run[r].pc = "resolve"
    /\ j \in ToResolve(run[r].name)
    /\ Len(ListPods(j)) = 1
    /\ imageworkstatus[j].ImageWorkRequest.WorkType # ImageCachePurge
    /\ \E cs \in CSShapes :
        run' = [run EXCEPT ![r].pc = "events", ![r].job = <<j>>,
                           ![r].iw = <<Expired(imageworkstatus[j], ListPods(j)[1], cs)>>]
    /\ UNCHANGED <<cfgVars, dispVars, imageworkstatus, lock, pods, obsVars, workqueue, histVars>>

\* lines 248-251: listing the events fails
R_EventsFail(r) ==
    /\ Alive
    /\ run[r].pc = "events"
    /\ Abort(r)
    /\ UNCHANGED <<cfgVars, dispVars, imageworkstatus, pods, obsVars, workqueue, histVars>>

EventLists == UNION {[1..n -> {"event"}] : n \in 0..MaxEvents}

\* lines 253-255: iwres.Message + ":" + v.Message for each event
RECURSIVE AppendEvents(_, _)
AppendEvents(msg, evs) ==
    IF evs = <<>> THEN msg
    ELSE AppendEvents(msg \o <<":", Head(evs)>>, Tail(evs))

\* lines 253-257: the messages are appended and the entry stored
R_EventsListed(r, evs) ==
    /\ Alive
    /\ run[r].pc = "events"
    /\ LET j == run[r].job[1]
           iw == run[r].iw[1] IN
        imageworkstatus' =
            [imageworkstatus EXCEPT ![j] = [iw EXCEPT !.Message = AppendEvents(@, evs)]]
    /\ run' = [run EXCEPT ![r].pc = "resolve", ![r].job = <<>>, ![r].iw = <<>>]
    /\ UNCHANGED <<cfgVars, dispVars, lock, pods, obsVars, workqueue, histVars>>

\* lines 260-263 and 199: the range ends, return nil, the deferred Unlock runs
R_ResolveDone(r) ==
    /\ Alive
    /\ run[r].pc = "resolve"
    /\ ToResolve(run[r].name) = {}
    /\ lock' = 0
    /\ run' = [run EXCEPT ![r].pc = "removeLock"]
    /\ UNCHANGED <<cfgVars, dispVars, imageworkstatus, pods, obsVars, workqueue, histVars>>

\* line 295
R_RemoveLock(r) ==
    /\ Alive
    /\ run[r].pc = "removeLock"
    /\ lock = 0
    /\ lock' = r
    /\ run' = [run EXCEPT ![r].pc = "remove"]
    /\ UNCHANGED <<cfgVars, dispVars, imageworkstatus, pods, obsVars, workqueue, histVars>>

ToRemove(name) ==
    {j \in DOMAIN imageworkstatus : Matches(imageworkstatus[j], name)}

\* the prefix test left out
IsDeleteTarget_NoPrefixTest(job) == TRUE

\* line 304: the job is deleted in the cluster unless its name is a fake one
IsDeleteTarget(job) == ~HasPrefix(job, fakeJobPrefix)

\* lines 297-304: copy the entry, remember the image cache, delete the key;
\* a real job: Jobs().Delete is called
R_RemoveStep(r, j) ==
    /\ Alive
    /\ run[r].pc = "remove"
    /\ j \in ToRemove(run[r].name)
    /\ LET iw == imageworkstatus[j]
           copied == [run EXCEPT ![r].iwstatus = Put(@, j, iw),
                                 ![r].imageCache = <<iw.ImageWorkRequest.Imagecache>>] IN
        IF IsDeleteTarget(j)
        THEN /\ run' = [copied EXCEPT ![r].pc = "deleting", ![r].job = <<j>>]
             /\ deleteLog' = Append(deleteLog, j)
        ELSE /\ run' = copied
             /\ deleteLog' = deleteLog
    /\ imageworkstatus' = Drop(imageworkstatus, j)
    /\ UNCHANGED <<cfgVars, dispVars, lock, pods, obsVars, workqueue, atLock, emitIdx,
                   succAtLock, runCache>>

\* line 305-306: the job is deleted, and its pods with it
R_JobDeleted(r) ==
    /\ Alive
    /\ run[r].pc = "deleting"
    /\ run[r].job[1] \in DOMAIN pods
    /\ pods' = Drop(pods, run[r].job[1])
    /\ run' = [run EXCEPT ![r].pc = "remove", ![r].job = <<>>]
    /\ UNCHANGED <<cfgVars, dispVars, imageworkstatus, lock, obsVars, workqueue, histVars>>

\* lines 306-311: Delete returns an error: Unlock, errCh <- err
R_DeleteFails(r) ==
    /\ Alive
    /\ run[r].pc = "deleting"
    /\ Abort(r)
    /\ UNCHANGED <<cfgVars, dispVars, imageworkstatus, pods, obsVars, workqueue, histVars>>

\* the Unlock left out
Unlocked_StillHeld(r) == r

\* line 315: the value of m.lock after the removal pass
Unlocked(r) == 0

R_RemoveDone(r) ==
    /\ Alive
    /\ run[r].pc = "remove"
    /\ ToRemove(run[r].name) = {}
    /\ lock' = Unlocked(r)
    /\ run' = [run EXCEPT ![r].pc = "emit"]
    /\ UNCHANGED <<cfgVars, dispVars, imageworkstatus, pods, obsVars, workqueue, histVars>>

\* the nil test left out
HasImageCache_Unchecked(r) == TRUE

\* line 316: imageCache != nil
HasImageCache(r) == run[r].imageCache # <<>>

\* lines 316-320: no entry was found for the image cache
R_NoImageCache(r) ==
    /\ Alive
    /\ run[r].pc = "emit"
    /\ ~HasImageCache(r)
    /\ run' = [run EXCEPT ![r].pc = "sendErr"]
    /\ UNCHANGED <<cfgVars, dispVars, imageworkstatus, lock, pods, obsVars, workqueue, histVars>>

\* line 321: cache.MetaNamespaceKeyFunc: namespace/name, or name alone
MetaNamespaceKeyFunc(c) ==
    IF c.Namespace = "" THEN <<c.Name>> ELSE <<c.Namespace, c.Name>>

\* lines 327-331
WorkQueueKey(r) ==
    [WorkType |-> ImageCacheStatusUpdate,
     Status |-> run[r].iwstatus,
     ObjKey |-> IF run[r].imageCache = <<>> THEN <<>>
                ELSE MetaNamespaceKeyFunc(run[r].imageCache[1])]

\* lines 327-333: AddRateLimited, then block in errCh <- nil
R_Emit(r) ==
    /\ Alive
    /\ run[r].pc = "emit"
    /\ HasImageCache(r)
    /\ workqueue' = Append(workqueue, WorkQueueKey(r))
    /\ emitIdx' = [emitIdx EXCEPT ![r] = Len(workqueue) + 1]
    /\ run' = [run EXCEPT ![r].pc = "sendNil"]
    /\ UNCHANGED <<cfgVars, dispVars, imageworkstatus, lock, pods, obsVars, deleteLog, atLock,
                   succAtLock, runCache>>

\* ------------------------------------------------------------------ system
Dispatcher ==
    \/ D_Unexpected
    \/ D_Flush
    \/ D_DispatchFails
    \/ D_CreateJob
    \/ D_AlreadyPresent
    \/ D_Insert

Cluster ==
    \/ \E j \in DOMAIN pods : E_CreatePod(j)
    \/ \E j \in DOMAIN pods : E_PodRuns(j)
    \/ \E j \in DOMAIN pods : \E ph \in {PodSucceeded, PodFailed} : E_PodFinishes(j, ph)

Observer ==
    \/ O_Read
    \/ O_Panic
    \/ O_Write

Reconciler(r) ==
    \/ R_PollTick(r)
    \/ R_PollDone(r)
    \/ R_PollTimeout(r)
    \/ R_ResolveLock(r)
    \/ \E j \in DOMAIN imageworkstatus : R_ListPodsFails(r, j)
    \/ \E j \in DOMAIN imageworkstatus : R_PodsAmbiguous(r, j)
    \/ \E j \in DOMAIN imageworkstatus : R_ResolvePurge(r, j)
    \/ \E j \in DOMAIN imageworkstatus : R_QueryEvents(r, j)
    \/ \E j \in DOMAIN imageworkstatus : R_RemoveStep(r, j)
    \/ R_EventsFail(r)
    \/ \E evs \in EventLists : R_EventsListed(r, evs)
    \/ R_ResolveDone(r)
    \/ R_RemoveLock(r)
    \/ R_JobDeleted(r)
    \/ R_DeleteFails(r)
    \/ R_RemoveDone(r)
    \/ R_NoImageCache(r)
    \/ R_Emit(r)

Next ==
    \/ Dispatcher
    \/ Cluster
    \/ Observer
    \/ \E r \in Runs : Reconciler(r)

Spec == Init /\ [][Next]_vars

\* the engine with the stop signal
NextStop ==
    \/ Next
    \/ Stop
    \/ D_Shutdown

SpecStop == InitStop /\ [][NextStop]_vars

\* ------------------------------------------------------- claim vocabulary
Finished(r) == run[r].pc \in {"sendErr", "sendNil"}
IsFake(job) == HasPrefix(job, fakeJobPrefix)
\* the entries of run r's image cache that were in the map when its forced
\* resolution began
Owned(r) == {j \in DOMAIN atLock[r] : Matches(atLock[r][j], run[r].name)}
\* the snapshot run r put on the workqueue
Snapshot(r) == workqueue[emitIdx[r]].Status
\* in how many emitted snapshots the job appears
TimesEmitted(wq, j) == Cardinality({i \in DOMAIN wq : j \in DOMAIN wq[i].Status})

\* C1: when a reconciler run finishes, every job the Dispatcher inserted for
\* its image cache (and that was in the map when the run began resolving) is
\* either gone from the map and in exactly one emitted snapshot, the run having
\* succeeded, or, the run having aborted, still in the map.  (That the entry
\* of an aborted run is also unmodified is C8's statement.)
C1_RoundTrip ==
    [][\A r \in Runs :
        (~Finished(r) /\ Finished(r)') =>
            \A j \in Owned(r) \cap inserted :
                \/ /\ run'[r].pc = "sendNil"
                   /\ j \notin DOMAIN imageworkstatus'
                   /\ j \in DOMAIN Snapshot(r)'
                   /\ TimesEmitted(workqueue', j) = 1
                \/ /\ run'[r].pc = "sendErr"
                   /\ j \in DOMAIN imageworkstatus']_vars

\* C2: no real job name is passed to the delete-job operation twice.
C2_DeleteAtMostOnce ==
    \A i, k \in DOMAIN deleteLog :
        (i # k /\ ~IsFake(deleteLog[i])) => deleteLog[i] # deleteLog[k]

\* C3: a fake job name is never passed to the delete-job operation; its entry
\* stays as the Dispatcher stored it while it is in the map and is copied
\* unchanged into the snapshot.
C3_FakeNeverDeleted ==
    /\ \A i \in DOMAIN deleteLog : ~IsFake(deleteLog[i])
    /\ \A j \in DOMAIN imageworkstatus :
        IsFake(j) =>
            imageworkstatus[j] = NewResult(imageworkstatus[j].ImageWorkRequest,
                                           ImageWorkResultStatusAlreadyPulled)
    /\ \A i \in DOMAIN workqueue : \A j \in DOMAIN workqueue[i].Status :
        IsFake(j) =>
            /\ workqueue[i].Status[j].Status = ImageWorkResultStatusAlreadyPulled
            /\ j \notin DOMAIN imageworkstatus

\* a snapshot holding a fake entry has been emitted
C3_Witness ==
    \E i \in DOMAIN workqueue : \E j \in DOMAIN workqueue[i].Status : IsFake(j)

\* C4: an entry the Observer had set to succeeded when a run's forced
\* resolution began is not overwritten by that run: it stays succeeded while it
\* is in the map, and the snapshot the run emits reports it as succeeded.
C4_SucceededSurvivesDeadline ==
    \A r \in Runs : \A j \in Owned(r) :
        (atLock[r][j].Status = ImageWorkResultStatusSucceeded
         /\ run[r].pc \in {"resolve", "events", "removeLock", "remove", "deleting",
                           "emit", "sendErr", "sendNil"}) =>
            /\ j \in DOMAIN imageworkstatus =>
                imageworkstatus[j].Status = ImageWorkResultStatusSucceeded
            /\ (emitIdx[r] # 0 /\ j \in DOMAIN Snapshot(r)) =>
                Snapshot(r)[j].Status = ImageWorkResultStatusSucceeded

\* a run that had to resolve another entry has emitted a snapshot with an
\* entry that was succeeded before its forced resolution
C4_Witness ==
    \E r \in Runs :
        /\ emitIdx[r] # 0
        /\ \E j \in Owned(r) \cap DOMAIN Snapshot(r) :
            atLock[r][j].Status = ImageWorkResultStatusSucceeded
        /\ \E k \in Owned(r) :
            atLock[r][k].Status = ImageWorkResultStatusJobCreated

\* C5: once the status of an entry is succeeded or failed, no step changes
\* its status, reason or message (stated for the jobs that got at most one
\* pod, whose single pod notifies the Observer once).
C5_ResolvedOnce ==
    [][\A j \in DOMAIN imageworkstatus \cap DOMAIN imageworkstatus' :
        (/\ imageworkstatus[j].Status \in
                {ImageWorkResultStatusSucceeded, ImageWorkResultStatusFailed}
         /\ Len(ListPods(j)) <= 1) =>
            /\ imageworkstatus'[j].Status = imageworkstatus[j].Status
            /\ imageworkstatus'[j].Reason = imageworkstatus[j].Reason
            /\ imageworkstatus'[j].Message = imageworkstatus[j].Message]_vars

\* C6: a job name removed from the map never comes back into it, and it is
\* in at most one emitted snapshot.
C6_RemovedOnce ==
    [][\A j \in inserted :
        /\ j \notin DOMAIN imageworkstatus => j \notin DOMAIN imageworkstatus'
        /\ TimesEmitted(workqueue', j) <= 1]_vars

\* C7: in the snapshot of a run that found some of its entries succeeded and
\* others still jobcreated when the deadline elapsed, each with exactly one
\* pod, every such entry is present, and each that was jobcreated is failed
\* with a non-empty reason.
C7_DeadlineFailedWithReason ==
    \A r \in Runs :
        (/\ emitIdx[r] # 0
         /\ \E k \in Owned(r) : atLock[r][k].Status = ImageWorkResultStatusSucceeded
         /\ \E k \in Owned(r) : atLock[r][k].Status = ImageWorkResultStatusJobCreated) =>
            \A j \in Owned(r) :
                /\ j \in DOMAIN Snapshot(r)
                /\ atLock[r][j].Status = ImageWorkResultStatusJobCreated =>
                    /\ Snapshot(r)[j].Status = ImageWorkResultStatusFailed
                    /\ Snapshot(r)[j].Reason # ""

\* C8: when the forced-resolution pass aborts on a job with no pod or with
\* several pods, every entry of the image cache is in the map as it was when
\* the pass began.
C8_AmbiguousAbortLeavesTable ==
    [][\A r \in Runs :
        (/\ run[r].pc = "resolve"
         /\ run'[r].pc = "sendErr"
         /\ \E k \in ToResolve(run[r].name) : Len(ListPods(k)) # 1) =>
            \A j \in Owned(r) :
                /\ j \in DOMAIN imageworkstatus'
                /\ imageworkstatus'[j] = atLock[r][j]]_vars

C10_SendCompletes ==
    \A r \in Runs : (Alive /\ Finished(r)) => ENABLED Reconciler(r)

\* ------------------------------------------- claim vocabulary (Dispatcher)
\* the Dispatcher takes a concrete work item off the queue in this step
TakesConcrete ==
    /\ dpc = "idle"
    /\ imageworkqueue # <<>>
    /\ Head(imageworkqueue).Type = "ImageWorkRequest"
    /\ ~IsFlush(Head(imageworkqueue))
    /\ imageworkqueue' # imageworkqueue
\* ... and its dispatch fails: the call ends without an entry to store
FailedDispatch == TakesConcrete /\ dpc' = "idle"
\* ... and its dispatch succeeds: the call goes on to store an entry
Dispatched == TakesConcrete /\ dpc' = "insert"
\* the Dispatcher stores the entry of the item it dispatched in this step
Stores == dpc = "insert" /\ dpc' = "idle"
\* the Dispatcher takes a flush item off the queue in this step
TakesFlush ==
    /\ dpc = "idle"
    /\ imageworkqueue # <<>>
    /\ Head(imageworkqueue).Type = "ImageWorkRequest"
    /\ IsFlush(Head(imageworkqueue))
    /\ imageworkqueue' # imageworkqueue
InFlight(r) == run[r].pc # "none"

\* C11: when the dispatch of a concrete work item fails, the item is queued
\* again, so that the Dispatcher gets it once more.
C11_FailedItemRedelivered ==
    [][FailedDispatch =>
        /\ Len(imageworkqueue') = Len(imageworkqueue)
        /\ \E i \in DOMAIN imageworkqueue' :
            imageworkqueue'[i] = Head(imageworkqueue)]_vars

\* C12: when the dispatch of a concrete work item fails, the map is left as
\* it was: no entry, under a job name or a fake name, is stored for the item,
\* and no job exists for it.
C12_FailedDispatchStoresNothing ==
    [][FailedDispatch =>
        /\ imageworkstatus' = imageworkstatus
        /\ inserted' = inserted
        /\ pods' = pods]_vars

\* every item has been taken off the queue, a flush item among them, and no
\* dispatch succeeded
C12_Witness ==
    /\ imageworkqueue = <<>>
    /\ dpc = "idle"
    /\ inserted = {}
    /\ imageworkstatus = EmptyMap
    /\ \E r \in Runs : InFlight(r)

\* C13: a successful dispatch creates one job and stores jobcreated under its
\* name when a pull or delete is needed, and otherwise creates no job and
\* stores alreadypulled under a fake name; the name is not yet a key of the map,
\* the map gains that one entry and keeps every other entry as it was, and the
\* item is not put back on the queue.
C13_OneFreshEntryPerDispatch ==
    [][/\ Dispatched =>
            LET d == dcur'[1] IN
            IF NeedsJob(Head(imageworkqueue))
            THEN /\ DOMAIN pods' = DOMAIN pods \cup {d.job}
                 /\ d.job \notin DOMAIN pods
                 /\ ~IsFake(d.job)
                 /\ d.status = ImageWorkResultStatusJobCreated
            ELSE /\ pods' = pods
                 /\ IsFake(d.job)
                 /\ d.status = ImageWorkResultStatusAlreadyPulled
       /\ Stores =>
            LET d == dcur[1] IN
            /\ d.job \notin DOMAIN imageworkstatus
            /\ DOMAIN imageworkstatus' = DOMAIN imageworkstatus \cup {d.job}
            /\ \A k \in DOMAIN imageworkstatus : imageworkstatus'[k] = imageworkstatus[k]
            /\ imageworkstatus'[d.job] = NewResult(d.iwr, d.status)
            /\ imageworkqueue' = imageworkqueue
            /\ pods' = pods]_vars

\* the items C14 is about: not a purge, a tag other than latest, on the node
TaggedAndPresent(iwr) ==
    /\ iwr.WorkType # ImageCachePurge
    /\ iwr.Image.Tag \notin {"", "latest"}
    /\ iwr.Image \in NodeImages

\* C14: under the policy IfNotPresent, the dispatch of a non-purge item whose
\* image has a tag other than latest and is on the node creates no job and
\* stores, before the Dispatcher takes another item, an entry alreadypulled
\* under a fake name.
C14_PresentTaggedImageNoJob ==
    [][/\ (Dispatched /\ imagePullPolicy = "IfNotPresent"
           /\ TaggedAndPresent(Head(imageworkqueue))) =>
            /\ pods' = pods
            /\ IsFake(dcur'[1].job)
            /\ dcur'[1].status = ImageWorkResultStatusAlreadyPulled
       /\ (dpc = "insert" /\ imagePullPolicy = "IfNotPresent"
           /\ TaggedAndPresent(dcur[1].iwr)) =>
            /\ imageworkqueue' = imageworkqueue
            /\ Stores =>
                /\ pods' = pods
                /\ imageworkstatus'[dcur[1].job].Status = ImageWorkResultStatusAlreadyPulled]_vars

\* an entry for such an item is in the map and no job exists
C14_Witness ==
    /\ imagePullPolicy = "IfNotPresent"
    /\ pods = EmptyMap
    /\ \E j \in DOMAIN imageworkstatus :
        /\ TaggedAndPresent(imageworkstatus[j].ImageWorkRequest)
        /\ imageworkstatus[j].Status = ImageWorkResultStatusAlreadyPulled

\* the items C15 is about: not a purge, no tag or the tag latest
Untagged(iwr) ==
    /\ iwr.WorkType # ImageCachePurge
    /\ iwr.Image.Tag \in {"", "latest"}

\* C15: under either policy, and whether or not the image is on the node, the
\* dispatch of a non-purge item whose image has no tag or the tag latest
\* creates a job and stores jobcreated under the job's name; no entry of such
\* an item is ever alreadypulled.
C15_UntaggedAlwaysPulled ==
    [][/\ (Dispatched /\ Untagged(Head(imageworkqueue))) =>
            /\ DOMAIN pods' = DOMAIN pods \cup {dcur'[1].job}
            /\ dcur'[1].job \notin DOMAIN pods
            /\ dcur'[1].status = ImageWorkResultStatusJobCreated
       /\ (Stores /\ Untagged(dcur[1].iwr)) =>
            /\ ~IsFake(dcur[1].job)
            /\ imageworkstatus'[dcur[1].job].Status = ImageWorkResultStatusJobCreated
       /\ \A j \in DOMAIN imageworkstatus' :
            Untagged(imageworkstatus'[j].ImageWorkRequest) =>
                imageworkstatus'[j].Status # ImageWorkResultStatusAlreadyPulled]_vars

\* under IfNotPresent, a job was created and its entry stored for an image
\* without tag that is on the node
C15_Witness ==
    /\ imagePullPolicy = "IfNotPresent"
    /\ \E j \in DOMAIN imageworkstatus \cap DOMAIN pods :
        /\ Untagged(imageworkstatus[j].ImageWorkRequest)
        /\ imageworkstatus[j].ImageWorkRequest.Image.Tag = ""
        /\ imageworkstatus[j].ImageWorkRequest.Image \in NodeImages
        /\ imageworkstatus[j].Status = ImageWorkResultStatusJobCreated

\* C16: a run that is sleeping between polls, waiting for the events of a pod
\* or for the deletion of a job, or sending on its channel, does not hold the
\* lock.
C16_NoLockAcrossCalls ==
    \A r \in Runs :
        run[r].pc \in {"poll", "events", "deleting", "sendErr", "sendNil"} => lock # r

\* C17: when the deletion of a job fails in the removal pass, the run goes to
\* send the error, the lock is free, and every entry of the image cache, the
\* ones the pass had copied included, is in the map or in an emitted snapshot.
C17_DeleteFailureDropsNothing ==
    [][\A r \in Runs :
        (run[r].pc = "deleting" /\ run'[r].pc = "sendErr") =>
            /\ lock' = 0
            /\ \A j \in DOMAIN run[r].iwstatus \cup ToRemove(run[r].name) :
                \/ j \in DOMAIN imageworkstatus'
                \/ TimesEmitted(workqueue', j) >= 1]_vars

C19_StopTerminates ==
    (stopCh = "closed" /\ Alive) =>
        /\ dpc = "done" \/ lock # 0 \/ ENABLED (Dispatcher \/ D_Shutdown)
        /\ \A r \in Runs :
            InFlight(r) => (lock \notin {0, r} \/ ENABLED Reconciler(r))

\* C20: taking a flush item leaves the map and the jobs as they were, removes
\* the item from the queue, starts one reconciler goroutine, for the image
\* cache of the item, and leaves the Dispatcher ready for the next item.
C20_FlushSpawnsOneRun ==
    [][TakesFlush =>
        /\ imageworkstatus' = imageworkstatus
        /\ pods' = pods
        /\ nameSeq' = nameSeq
        /\ imageworkqueue' = Tail(imageworkqueue)
        /\ dpc' = "idle"
        /\ \E r \in Runs :
            /\ ~InFlight(r)
            /\ run'[r].pc = "poll"
            /\ run'[r].name = Head(imageworkqueue).Imagecache.Name
            /\ \A q \in Runs \ {r} : run'[q] = run[q]]_vars

\* the Dispatcher is storing the entry of a later item while a run is polling
C20_Witness ==
    /\ dpc = "insert"
    /\ \E r \in Runs : run[r].pc = "poll"

\* C21: a step of a run in its polling phase leaves the map and the lock as
\* they were, and ends the phase only when no entry of the run's image cache
\* is jobcreated or when the deadline has elapsed; the forced-resolution pass
\* is entered from the end of the polling phase only.
C21_PollReadsOnly ==
    [][\A r \in Runs :
        /\ (run[r].pc = "poll" /\ run'[r] # run[r]) =>
            /\ imageworkstatus' = imageworkstatus
            /\ lock' = lock
            /\ run'[r].pc # "poll" =>
                /\ run'[r].pc = "resolveLock"
                /\ \/ run[r].ticks = MaxTicks
                   \/ \A j \in DOMAIN imageworkstatus :
                        imageworkstatus[j].ImageWorkRequest.Imagecache.Name = run[r].name
                            => imageworkstatus[j].Status # ImageWorkResultStatusJobCreated
        /\ (run'[r].pc = "resolveLock" /\ run[r].pc # "resolveLock") => run[r].pc = "poll"
        /\ (run'[r].pc = "resolve" /\ run[r].pc \notin {"resolve", "events"})
            => run[r].pc = "resolveLock"]_vars

\* a forced-resolution pass that began at the deadline has an entry to resolve
C21_Witness ==
    \E r \in Runs :
        /\ run[r].pc = "resolve"
        /\ run[r].ticks = MaxTicks
        /\ ToResolve(run[r].name) # {}

\* C22: the Observer, handling a Failed pod whose job is in the map, does not
\* crash and stores the entry as failed; reason and message are those of the
\* container status when the pod reports exactly one and it is terminated, and
\* otherwise those the entry had.
C22_FailedPodAnyStatuses ==
    [][(opc = "write" /\ Head(notif).phase = PodFailed /\ opc' # opc) =>
        /\ opc' = "idle"
        /\ LET j == Head(notif).job IN
            /\ j \in DOMAIN imageworkstatus'
            /\ imageworkstatus'[j].Status = ImageWorkResultStatusFailed
            /\ IF Len(ocs) = 1 /\ ocs[1] = "terminated"
               THEN /\ imageworkstatus'[j].Reason = "Error"
                    /\ imageworkstatus'[j].Message = <<"terminated">>
               ELSE /\ imageworkstatus'[j].Reason = oiw[1].Reason
                    /\ imageworkstatus'[j].Message = oiw[1].Message]_vars

\* C23: taking an object that is not an ImageWorkRequest removes it from the
\* queue for good, creates no job, starts no run, leaves the map as it was and
\* leaves the Dispatcher ready for the next item.
C23_UnexpectedDiscarded ==
    [][(/\ dpc = "idle"
        /\ imageworkqueue # <<>>
        /\ Head(imageworkqueue).Type # "ImageWorkRequest"
        /\ imageworkqueue' # imageworkqueue) =>
            /\ imageworkqueue' = Tail(imageworkqueue)
            /\ dpc' = "idle"
            /\ imageworkstatus' = imageworkstatus
            /\ pods' = pods
            /\ nameSeq' = nameSeq
            /\ run' = run]_vars

\* the object at the head of a queue has been taken and the Dispatcher is
\* ready for the items behind it
C23_Witness ==
    /\ dpc = "idle"
    /\ \E c \in Configs :
        /\ c[1][1].Type # "ImageWorkRequest"
        /\ imageworkqueue = Tail(c[1])

\* C24: no entry of an emitted snapshot is jobcreated, and no job is being
\* deleted whose entry was jobcreated when the removal pass copied it.
C24_SnapshotResolved ==
    /\ \A i \in DOMAIN workqueue : \A j \in DOMAIN workqueue[i].Status :
        workqueue[i].Status[j].Status \in
            {ImageWorkResultStatusSucceeded, ImageWorkResultStatusFailed,
             ImageWorkResultStatusAlreadyPulled}
    /\ \A r \in Runs :
        run[r].pc = "deleting" =>
            run[r].iwstatus[run[r].job[1]].Status # ImageWorkResultStatusJobCreated

\* C25: the snapshot of a run reports as succeeded every job of its image
\* cache whose only pod had Succeeded when the run began forced resolution.
C25_SucceededPodReported ==
    \A r \in Runs :
        emitIdx[r] # 0 =>
            \A j \in succAtLock[r] :
                /\ j \in DOMAIN Snapshot(r)
                /\ Snapshot(r)[j].Status = ImageWorkResultStatusSucceeded

\* C26: while a run holds the lock, every entry of an image cache other than
\* the one whose flush item started the run stays in the map as it is; and
\* every entry of a run's snapshot is of the run's image cache.
C26_OnlyOwnCache ==
    [][\A r \in Runs :
        /\ lock = r =>
            \A j \in DOMAIN imageworkstatus :
                imageworkstatus[j].ImageWorkRequest.Imagecache # runCache[r][1] =>
                    /\ j \in DOMAIN imageworkstatus'
                    /\ imageworkstatus'[j] = imageworkstatus[j]
        /\ emitIdx'[r] # 0 =>
            \A j \in DOMAIN Snapshot(r)' :
                Snapshot(r)'[j].ImageWorkRequest.Imagecache = runCache'[r][1]]_vars

\* C27: the lock is held only by a run inside its forced-resolution or
\* removal pass, and that run can take a step; a run that is sending on its
\* channel, or is outside the two passes, does not hold it.
C27_LockReleased ==
    /\ lock # 0 =>
        /\ lock \in Runs
        /\ run[lock].pc \in {"resolve", "events", "remove", "deleting"}
        /\ Alive => ENABLED Reconciler(lock)
    /\ \A r \in Runs :
        run[r].pc \notin {"resolve", "events", "remove", "deleting"} => lock # r

\* a run aborted in the forced pass and another in the removal pass, and the
\* lock is free
C27_Witness ==
    /\ lock = 0
    /\ \E r \in Runs :
        run[r].pc = "sendErr" /\ run[r].iwstatus # EmptyMap
    /\ \E r \in Runs :
        run[r].pc = "sendErr" /\ run[r].iwstatus = EmptyMap /\ Owned(r) # {}

====
